---- MODULE Spec2Model ----
(***************************************************************************)
(* Model of Multi_Modal_text_audio_image.ipynb: the MultimodalTransformer  *)
(* forward pass (cell 1) and the Optuna hyperparameter search (cells 2-3). *)
(*                                                                         *)
(* Floats are scaled integers: learning rates and weight decays are in     *)
(* units of 1e-6.  A tensor is a record [shape, rows]: shape is the tuple  *)
(* of its dimensions, rows the sequence of its entries along axis 1 (the   *)
(* batch axis 0 has length 1 throughout the notebook).  A row of an        *)
(* encoder's output names the modality and position it stands for; a row   *)
(* of the fusion transformer's output names the rows of the transformer's  *)
(* input it was computed from.  Python's index 0 is index 1 here.          *)
(***************************************************************************)
EXTENDS Integers, Sequences, FiniteSets, TLC

VARIABLES
    pc,             \* position of the notebook run
    globals,        \* names bound in the kernel's namespace
    env,            \* the files and signature defaults the run sees
    study,          \* optuna study: [n_trials, trials, best_trial]
    learning_rate,  \* objective's local (line 138)
    weight_decay,   \* objective's local (line 139)
    model,          \* objective's local (line 142)
    optimizer,      \* objective's local (line 149)
    loss,           \* objective's local (line 167)
    error,          \* the exception that ended the run, "none" otherwise
    best_params,    \* global of line 181
    final_optimizer,\* global of line 201
    self,           \* forward pass: the module forward is called on
    args,           \* forward pass: [text, image_path, audio_path]
    frame,          \* forward pass: forward's locals, calls made and exception
    line            \* forward pass: the next line of forward to execute

vars == <<pc, globals, env, study, learning_rate, weight_decay, model, optimizer,
          loss, error, best_params, final_optimizer, self, args, frame, line>>

searchVars == <<pc, globals, env, study, learning_rate, weight_decay, model,
                optimizer, loss, error, best_params, final_optimizer>>

forwardVars == <<self, args, frame, line>>

(***************************************************************************)
(* Bounds of the model.                                                    *)
(***************************************************************************)
MaxTrials == 2      \* n_trials ranges over 1..MaxTrials
MaxLoss == 2        \* a finite loss is one of the levels 0..MaxLoss
MaxTokens == 2      \* word pieces of a text input: 0..MaxTokens

(***************************************************************************)
(* Constants of the program.                                               *)
(***************************************************************************)
LrLow == 10                 \* 1e-5
LrHigh == 1000              \* 1e-3
WdLow == 1                  \* 1e-6
WdHigh == 10000             \* 1e-2
DefaultHiddenDim == 768
DefaultHeads == 8
NumClasses == 10
ImageSide == 224
BasePatch == 16             \* google/vit-base-patch16-224
BaseWidth == 768            \* hidden_size of the three base checkpoints
ExampleTokens == 7          \* word pieces of "This is an example text input."
MaxPositions == 512         \* truncation=True cuts at the tokenizer's limit

Min(a, b) == IF a < b THEN a ELSE b

NoTensor == [shape |-> <<>>, rows |-> <<>>]

(***************************************************************************)
(* Inputs the forward pass is checked on.                                  *)
(***************************************************************************)
Widths == {BaseWidth, 1024}
Patches == {BasePatch, 32}
HiddenDims == {DefaultHiddenDim, 512}
Heads == {DefaultHeads, 5}
\* an audio file: absent, or a number of samples at 16 kHz (0 = empty)
AudioFiles == {[exists |-> FALSE, samples |-> 0],
               [exists |-> TRUE, samples |-> 0],
               [exists |-> TRUE, samples |-> 400],
               [exists |-> TRUE, samples |-> 720]}
ImageFiles == {[exists |-> FALSE], [exists |-> TRUE]}
Texts == 0..MaxTokens
\* example_audio.wav and example_image.jpg as the search may find them
ExampleAudioFiles == {a \in AudioFiles : a.samples < 720}

(***************************************************************************)
(* torch.nn building blocks.  Each returns [raised, val].                  *)
(***************************************************************************)
Ok(v) == [raised |-> "none", val |-> v]
Raise(e) == [raised |-> e, val |-> NoTensor]

\* nn.Linear(in, out) applied to x: the last axis is mapped, the rows kept
Linear(layer, x) ==
    LET n == Len(x.shape) IN
    IF x.shape[n] # layer.in_features
    THEN Raise("RuntimeError")
    ELSE Ok([shape |-> [x.shape EXCEPT ![n] = layer.out_features],
             rows |-> x.rows])

\* a concatenation that leaves the audio sequence out
CatDropsAudio(a, b, c, dim) ==
    LET d == dim + 1
        others == {1, 2, 3} \ {d}
    IN
    IF \E k \in others : a.shape[k] # b.shape[k] \/ a.shape[k] # c.shape[k]
    THEN Raise("RuntimeError")
    ELSE Ok([shape |-> [a.shape EXCEPT ![d] = a.shape[d] + b.shape[d]],
             rows |-> IF d = 2 THEN a.rows \o b.rows ELSE a.rows])

\* torch.cat((a, b, c), dim) of three 3-axis tensors; dim is Python's index.
\* The rows are those along axis 1, so they are joined when dim is 1
Cat(a, b, c, dim) ==
    LET d == dim + 1
        others == {1, 2, 3} \ {d}
    IN
    IF \E k \in others : a.shape[k] # b.shape[k] \/ a.shape[k] # c.shape[k]
    THEN Raise("RuntimeError")
    ELSE Ok([shape |-> [a.shape EXCEPT ![d] = a.shape[d] + b.shape[d] + c.shape[d]],
             rows |-> IF d = 2 THEN a.rows \o b.rows \o c.rows ELSE a.rows])

\* nn.Transformer(...) as constructed at lines 65-67: batch_first is left at
\* its default, False, so axis 0 is the sequence and axis 1 the batch
NewTransformer(d_model, nhead) ==
    IF d_model % nhead # 0
    THEN [raised |-> "AssertionError", val |-> [d_model |-> d_model, nhead |-> nhead, batch_first |-> FALSE]]
    ELSE [raised |-> "none", val |-> [d_model |-> d_model, nhead |-> nhead, batch_first |-> FALSE]]

SeqAxis(t) == IF t.batch_first THEN 1 ELSE 0

\* transformer(src, tgt): the output has tgt's shape; the entry at (i, j)
\* attends over the sequence axis of tgt and of the encoded src, within its
\* own batch element.  With axis 0 of length 1, the rows along axis 1 that
\* row j is computed from are: all of them when axis 1 is the sequence,
\* row j alone when axis 1 is the batch.
Transformer(t, src, tgt) ==
    IF src.shape[3] # t.d_model \/ tgt.shape[3] # t.d_model
       \/ src.shape[2 - SeqAxis(t)] # tgt.shape[2 - SeqAxis(t)]
    THEN Raise("RuntimeError")
    ELSE Ok([shape |-> tgt.shape,
             rows |-> [j \in 1..tgt.shape[2] |->
                        [from |-> IF SeqAxis(t) = 1 THEN 1..src.shape[2] ELSE {j}]]])

\* x[:, 0, :]
SelectFirst(x) ==
    IF x.shape[2] < 1
    THEN Raise("IndexError")
    ELSE Ok([shape |-> <<x.shape[1], x.shape[3]>>, rows |-> <<x.rows[1]>>])

(***************************************************************************)
(* The pretrained encoders and their preprocessors (external models, used  *)
(* through the shapes they produce).                                       *)
(***************************************************************************)
Tags(modality, n) == [i \in 1..n |-> [mod |-> modality, pos |-> i]]

\* BertTokenizer(text, padding=True, truncation=True): [CLS] pieces [SEP]
preprocess_text(text) ==
    LET n == Min(text + 2, MaxPositions) IN
    Ok([shape |-> <<1, n>>, rows |-> Tags("text", n)])

\* Image.open, then Resize((224, 224)), ToTensor, Normalize, unsqueeze(0)
preprocess_image(image_path) ==
    IF ~image_path.exists
    THEN Raise("FileNotFoundError")
    ELSE Ok([shape |-> <<1, 3, ImageSide, ImageSide>>, rows |-> <<>>])

\* librosa.load(sr=16000), then the tokenizer: one row of input values, as
\* long as the audio; nothing here looks at the length
preprocess_audio(audio_path) ==
    IF ~audio_path.exists
    THEN Raise("FileNotFoundError")
    ELSE Ok([shape |-> <<1, audio_path.samples>>, rows |-> <<>>])

\* BertModel(...).last_hidden_state: one vector per token
TextModel(m, input_ids) ==
    Ok([shape |-> <<1, input_ids.shape[2], m.hidden_size>>,
        rows |-> Tags("text", input_ids.shape[2])])

\* ViTModel(...).last_hidden_state: [CLS] and one vector per patch
ImageModel(m, pixel_values) ==
    LET n == (pixel_values.shape[3] \div m.patch) * (pixel_values.shape[4] \div m.patch) + 1 IN
    Ok([shape |-> <<1, n, m.hidden_size>>, rows |-> Tags("image", n)])

\* Wav2Vec2Model's feature extractor: seven 1-d convolutions without padding
ConvKernels == <<10, 3, 3, 3, 3, 2, 2>>
ConvStrides == <<5, 2, 2, 2, 2, 2, 2>>

RECURSIVE ConvOut(_, _)
ConvOut(n, i) ==
    IF i > Len(ConvKernels) THEN n
    ELSE IF n < ConvKernels[i] THEN -1      \* kernel larger than the input
    ELSE ConvOut((n - ConvKernels[i]) \div ConvStrides[i] + 1, i + 1)

\* Wav2Vec2Model(...).last_hidden_state: one vector per frame
AudioModel(m, input_values) ==
    LET n == ConvOut(input_values.shape[2], 1) IN
    IF n < 1
    THEN Raise("RuntimeError")
    ELSE Ok([shape |-> <<1, n, m.hidden_size>>, rows |-> Tags("audio", n)])

(***************************************************************************)
(* MultimodalTransformer.                                                  *)
(***************************************************************************)
\* __init__: pretrained gives the checkpoints' configurations
MultimodalTransformer(pretrained, hidden_dim, n_heads) ==
    LET t == NewTransformer(hidden_dim, n_heads) IN
    [raised |-> t.raised,
     val |-> [text_model |-> [hidden_size |-> pretrained.text_width],
              image_model |-> [hidden_size |-> pretrained.image_width,
                               patch |-> pretrained.patch],
              audio_model |-> [hidden_size |-> pretrained.audio_width],
              text_proj |-> [in_features |-> pretrained.text_width, out_features |-> hidden_dim],
              image_proj |-> [in_features |-> pretrained.image_width, out_features |-> hidden_dim],
              audio_proj |-> [in_features |-> pretrained.audio_width, out_features |-> hidden_dim],
              transformer |-> t.val,
              classifier |-> [in_features |-> hidden_dim, out_features |-> NumClasses]]]

NoModule == MultimodalTransformer(
    [text_width |-> 0, image_width |-> 0, patch |-> 1, audio_width |-> 0], 0, 1).val

\* forward's frame on entry: no local assigned, nothing called, no exception
NewFrame ==
    [calls |-> <<>>, raised |-> "none", returned |-> FALSE,
     text_input_ids |-> NoTensor, image_input |-> NoTensor, audio_input |-> NoTensor,
     text_features |-> NoTensor, image_features |-> NoTensor, audio_features |-> NoTensor,
     text_proj |-> NoTensor, image_proj |-> NoTensor, audio_proj |-> NoTensor,
     multimodal_features |-> NoTensor, fused_features |-> NoTensor, logits |-> NoTensor]

\* local = call(...): the call is made; its value is bound unless it raised
Assign(f, local, call, result) ==
    IF result.raised # "none"
    THEN [f EXCEPT !.calls = Append(@, call), !.raised = result.raised]
    ELSE [f EXCEPT !.calls = Append(@, call), ![local] = result.val]

Classify(s, fused) ==
    LET first == SelectFirst(fused) IN
    IF first.raised # "none" THEN first ELSE Linear(s.classifier, first.val)

LastLine == 13

\* the statements of forward, lines 90-113 of the notebook, in order
Exec(n, s, a, f) ==
    CASE n = 1 -> Assign(f, "text_input_ids", "preprocess_text", preprocess_text(a.text))
      [] n = 2 -> Assign(f, "image_input", "preprocess_image", preprocess_image(a.image_path))
      [] n = 3 -> Assign(f, "audio_input", "preprocess_audio", preprocess_audio(a.audio_path))
      [] n = 4 -> Assign(f, "text_features", "text_model", TextModel(s.text_model, f.text_input_ids))
      [] n = 5 -> Assign(f, "image_features", "image_model", ImageModel(s.image_model, f.image_input))
      [] n = 6 -> Assign(f, "audio_features", "audio_model", AudioModel(s.audio_model, f.audio_input))
      [] n = 7 -> Assign(f, "text_proj", "text_proj", Linear(s.text_proj, f.text_features))
      [] n = 8 -> Assign(f, "image_proj", "image_proj", Linear(s.image_proj, f.image_features))
      [] n = 9 -> Assign(f, "audio_proj", "audio_proj", Linear(s.audio_proj, f.audio_features))
      [] n = 10 -> Assign(f, "multimodal_features", "cat", Cat(f.text_proj, f.image_proj, f.audio_proj, 1))
      [] n = 11 -> Assign(f, "fused_features", "transformer", Transformer(s.transformer, f.multimodal_features, f.multimodal_features))
      [] n = 12 -> Assign(f, "logits", "classifier", Classify(s, f.fused_features))
      [] n = 13 -> [f EXCEPT !.returned = TRUE]

\* forward run from line n to its end: an exception ends it where it is raised
RECURSIVE RunFrom(_, _, _, _)
RunFrom(n, s, a, f) ==
    IF n > LastLine \/ f.raised # "none" THEN f
    ELSE RunFrom(n + 1, s, a, Exec(n, s, a, f))

\* model(text, image_path, audio_path)
Forward(s, text, image_path, audio_path) ==
    RunFrom(1, s, [text |-> text, image_path |-> image_path, audio_path |-> audio_path], NewFrame)

(***************************************************************************)
(* The forward pass, statement by statement, on inputs drawn at Init.      *)
(***************************************************************************)
NoArgs == [text |-> 0, image_path |-> [exists |-> FALSE], audio_path |-> [exists |-> FALSE, samples |-> 0]]

InitSearchIdle ==
    /\ pc = "off"
    /\ globals = {}
    /\ env = [hidden_dim |-> DefaultHiddenDim, n_heads |-> DefaultHeads,
              image |-> [exists |-> FALSE], audio |-> [exists |-> FALSE, samples |-> 0]]
    /\ study = [n_trials |-> 0, trials |-> <<>>, best_trial |-> 0]
    /\ learning_rate = 0
    /\ weight_decay = 0
    /\ model = [built |-> FALSE, module |-> NoModule, steps |-> 0, training |-> FALSE]
    /\ optimizer = [built |-> FALSE, lr |-> 0, weight_decay |-> 0, steps |-> 0]
    /\ loss = -1
    /\ error = "none"
    /\ best_params = {}
    /\ final_optimizer = [built |-> FALSE, lr |-> 0, weight_decay |-> 0, steps |-> 0]

InitForward ==
    /\ InitSearchIdle
    /\ \E tw \in Widths, iw \in Widths, aw \in Widths, p \in Patches,
          h \in HiddenDims, k \in Heads :
          self = MultimodalTransformer(
                   [text_width |-> tw, image_width |-> iw, patch |-> p, audio_width |-> aw], h, k)
    /\ \E t \in Texts, i \in ImageFiles, a \in AudioFiles :
          args = [text |-> t, image_path |-> i, audio_path |-> a]
    /\ frame = NewFrame
    /\ line = 0

\* model = MultimodalTransformer(...): forward can be called once it is built
Constructed ==
    /\ line = 0
    /\ self.raised = "none"
    /\ line' = 1
    /\ UNCHANGED <<self, args, frame>>
    /\ UNCHANGED searchVars

\* one statement of forward; an exception leaves forward at once
ForwardStep ==
    /\ line \in 1..LastLine
    /\ frame.raised = "none"
    /\ frame' = Exec(line, self.val, args, frame)
    /\ line' = IF frame'.raised # "none" THEN LastLine + 1 ELSE line + 1
    /\ UNCHANGED <<self, args>>
    /\ UNCHANGED searchVars

NextForward == Constructed \/ ForwardStep

SpecForward == InitForward /\ [][NextForward]_vars

(***************************************************************************)
(* Optuna: the study, its sampler and its record of trials.                *)
(***************************************************************************)
\* a trial's params: the set of <<name, value>> pairs suggested so far
Has(params, name) == \E p \in params : p[1] = name
Get(params, name) == (CHOOSE p \in params : p[1] = name)[2]

Pow(b, k) == IF k = 0 THEN 1 ELSE IF k = 1 THEN b ELSE b * b
Root(n) == CHOOSE r \in 1..n : r * r = n

\* trial.suggest_loguniform(name, low, high): exp of a uniform draw between
\* log(low) and log(high); the draws modelled are the two ends and the
\* middle of the log scale
SuggestLogUniform(low, high) ==
    {low * Pow(Root(high \div low), k) : k \in {0, 1, 2}}

\* study.optimize(objective, n_trials): catch is left at its default, ()
Catch == {}

\* a comparison that lets a later trial of equal value take the place
IsBetterOrEqual(new, best) == new <= best

\* direction="minimize": a completed trial replaces the best one when its
\* value is smaller
IsBetter(new, best) == new < best

NoValue == -1

NewTrial(number) ==
    [number |-> number, state |-> "RUNNING", params |-> {}, value |-> NoValue]

Complete(st) == {i \in 1..Len(st.trials) : st.trials[i].state = "COMPLETE"}

\* the storage's record of the best trial, updated as a trial completes
UpdateBest(st, i) ==
    IF st.best_trial = 0 THEN i
    ELSE IF IsBetter(st.trials[i].value, st.trials[st.best_trial].value) THEN i
    ELSE st.best_trial

\* study.tell(trial, state, value) on the running (last) trial
Tell(st, state, value) ==
    LET i == Len(st.trials)
        told == [st EXCEPT !.trials[i].state = state, !.trials[i].value = value]
    IN IF state = "COMPLETE" THEN [told EXCEPT !.best_trial = UpdateBest(told, i)]
       ELSE told

\* trial.suggest_*: the value is stored in the running trial's params
Suggested(st, name, v) ==
    [st EXCEPT !.trials[Len(st.trials)].params = @ \cup {<<name, v>>}]

(***************************************************************************)
(* The notebook run: cells 1, 2 and 3 in order; an exception that leaves a *)
(* cell stops the run.                                                     *)
(***************************************************************************)
NoModel == [built |-> FALSE, module |-> NoModule, steps |-> 0, training |-> FALSE]
NoOptimizer == [built |-> FALSE, lr |-> 0, weight_decay |-> 0, steps |-> 0]

\* the checkpoints named at lines 143-145 and 195-197
BaseCheckpoints ==
    [text_width |-> BaseWidth, image_width |-> BaseWidth, patch |-> BasePatch,
     audio_width |-> BaseWidth]

InitForwardIdle ==
    /\ self = [raised |-> "none", val |-> NoModule]
    /\ args = NoArgs
    /\ frame = NewFrame
    /\ line = LastLine + 1

Init ==
    /\ pc = "cell1"
    \* the kernel may or may not already hold a class of the name
    \* MultimodalTransformerTuner, which no cell of the notebook defines
    /\ globals \in {{}, {"MultimodalTransformerTuner"}}
    /\ \E k \in Heads, i \in ImageFiles, a \in ExampleAudioFiles :
          env = [hidden_dim |-> DefaultHiddenDim, n_heads |-> k, image |-> i, audio |-> a]
    /\ \E n \in 1..MaxTrials : study = [n_trials |-> n, trials |-> <<>>, best_trial |-> 0]
    /\ learning_rate = 0
    /\ weight_decay = 0
    /\ model = NoModel
    /\ optimizer = NoOptimizer
    /\ loss = NoValue
    /\ error = "none"
    /\ best_params = {}
    /\ final_optimizer = NoOptimizer
    /\ InitForwardIdle

\* cell 1: class MultimodalTransformer is defined
RunCell1 ==
    /\ pc = "cell1"
    /\ globals' = globals \cup {"MultimodalTransformer"}
    /\ pc' = "cell2"
    /\ UNCHANGED <<env, study, learning_rate, weight_decay, model, optimizer, loss,
                   error, best_params, final_optimizer>>
    /\ UNCHANGED forwardVars

\* cell 2, lines 128-177: objective is defined and the study created
CreateStudy ==
    /\ pc = "cell2"
    /\ globals' = globals \cup {"objective", "study"}
    /\ pc' = "optimize"
    /\ UNCHANGED <<env, study, learning_rate, weight_decay, model, optimizer, loss,
                   error, best_params, final_optimizer>>
    /\ UNCHANGED forwardVars

\* study.optimize, line 178: the next trial is asked for and objective called
\* on it, or the budget is spent and optimize returns
Optimize ==
    /\ pc = "optimize"
    /\ IF Len(study.trials) < study.n_trials
       THEN /\ study' = [study EXCEPT !.trials = Append(@, NewTrial(Len(@)))]
            /\ pc' = "suggest_lr"
       ELSE /\ study' = study
            /\ pc' = "best_params"
    /\ UNCHANGED <<globals, env, learning_rate, weight_decay, model, optimizer, loss,
                   error, best_params, final_optimizer>>
    /\ UNCHANGED forwardVars

\* objective's frame is left: its locals are gone
DropLocals ==
    /\ learning_rate' = 0
    /\ weight_decay' = 0
    /\ model' = NoModel
    /\ optimizer' = NoOptimizer
    /\ loss' = NoValue

\* objective raises e: optuna records the trial as failed, then raises e again
\* unless catch names it; an exception that leaves optimize ends cell 2
Raised(e) ==
    /\ study' = Tell(study, "FAIL", NoValue)
    /\ DropLocals
    /\ IF e \in Catch
       THEN pc' = "optimize" /\ error' = error
       ELSE pc' = "aborted" /\ error' = e
    /\ UNCHANGED <<globals, env, best_params, final_optimizer>>
    /\ UNCHANGED forwardVars

\* line 138
SuggestLr ==
    /\ pc = "suggest_lr"
    /\ \E v \in SuggestLogUniform(LrLow, LrHigh) :
          /\ learning_rate' = v
          /\ study' = Suggested(study, "lr", v)
    /\ pc' = "suggest_wd"
    /\ UNCHANGED <<globals, env, weight_decay, model, optimizer, loss, error,
                   best_params, final_optimizer>>
    /\ UNCHANGED forwardVars

\* line 139
SuggestWd ==
    /\ pc = "suggest_wd"
    /\ \E v \in SuggestLogUniform(WdLow, WdHigh) :
          /\ weight_decay' = v
          /\ study' = Suggested(study, "weight_decay", v)
    /\ pc' = "build_model"
    /\ UNCHANGED <<globals, env, learning_rate, model, optimizer, loss, error,
                   best_params, final_optimizer>>
    /\ UNCHANGED forwardVars

\* MultimodalTransformerTuner(text_model_name=..., ...): the name is looked up
\* in the kernel's namespace, then the class is called with the signature's
\* defaults for hidden_dim and n_heads
CallTuner ==
    IF "MultimodalTransformerTuner" \notin globals
    THEN [raised |-> "NameError", val |-> NoModule]
    ELSE MultimodalTransformer(BaseCheckpoints, env.hidden_dim, env.n_heads)

\* lines 142-146
BuildModel ==
    /\ pc = "build_model"
    /\ IF CallTuner.raised # "none"
       THEN Raised(CallTuner.raised)
       ELSE /\ model' = [built |-> TRUE, module |-> CallTuner.val, steps |-> 0,
                         training |-> FALSE]
            /\ pc' = "build_optimizer"
            /\ UNCHANGED <<globals, env, study, learning_rate, weight_decay, optimizer,
                           loss, error, best_params, final_optimizer>>
            /\ UNCHANGED forwardVars

\* an optimizer built with the two hyperparameters exchanged
AdamWSwapped(lr, wd) == [built |-> TRUE, lr |-> wd, weight_decay |-> lr, steps |-> 0]

\* optim.AdamW(model.parameters(), lr=..., weight_decay=...)
AdamW(lr, wd) == [built |-> TRUE, lr |-> lr, weight_decay |-> wd, steps |-> 0]

\* line 149
BuildOptimizer ==
    /\ pc = "build_optimizer"
    /\ optimizer' = AdamW(learning_rate, weight_decay)
    /\ pc' = "train"
    /\ UNCHANGED <<globals, env, study, learning_rate, weight_decay, model, loss,
                   error, best_params, final_optimizer>>
    /\ UNCHANGED forwardVars

\* model(text_input, image_path, audio_path) on the example of lines 156-158
ExampleForward(m) == Forward(m.module, ExampleTokens, env.image, env.audio)

\* nn.CrossEntropyLoss()(logits, labels) with labels = tensor([0]): one row
\* of logits per label, and the label below the number of classes
CriterionAccepts(logits) == logits.shape[1] = 1 /\ 0 < logits.shape[2]

\* lines 161-167: train mode, zero_grad, forward, loss.  The weights of the
\* projections, the transformer and the classifier are initialised from the
\* process's random generator, which the notebook never seeds, and train mode
\* draws dropout masks from it: the loss is one of the finite levels, whatever
\* the assignment
ForwardLoss ==
    /\ pc = "train"
    /\ LET f == ExampleForward(model) IN
       IF f.raised # "none" THEN Raised(f.raised)
       ELSE IF ~CriterionAccepts(f.logits) THEN Raised("ValueError")
       ELSE /\ \E l \in 0..MaxLoss : loss' = l
            /\ model' = [model EXCEPT !.training = TRUE]
            /\ pc' = "backward"
            /\ UNCHANGED <<globals, env, study, learning_rate, weight_decay, optimizer,
                           error, best_params, final_optimizer>>
            /\ UNCHANGED forwardVars

\* lines 168-169: loss.backward(), optimizer.step()
BackwardStep ==
    /\ pc = "backward"
    /\ model' = [model EXCEPT !.steps = @ + 1]
    /\ optimizer' = [optimizer EXCEPT !.steps = @ + 1]
    /\ pc' = "return"
    /\ UNCHANGED <<globals, env, study, learning_rate, weight_decay, loss, error,
                   best_params, final_optimizer>>
    /\ UNCHANGED forwardVars

\* a return that leaves the model and the optimizer where the next trial
\* finds them (as if they were globals of the notebook)
ReturnLossKeepsModel ==
    /\ pc = "return"
    /\ study' = Tell(study, "COMPLETE", loss)
    /\ pc' = "optimize"
    /\ UNCHANGED <<learning_rate, weight_decay, model, optimizer, loss>>
    /\ UNCHANGED <<globals, env, error, best_params, final_optimizer>>
    /\ UNCHANGED forwardVars

\* line 174: return loss.item(); optuna records the trial as complete
ReturnLoss ==
    /\ pc = "return"
    /\ study' = Tell(study, "COMPLETE", loss)
    /\ DropLocals
    /\ pc' = "optimize"
    /\ UNCHANGED <<globals, env, error, best_params, final_optimizer>>
    /\ UNCHANGED forwardVars

\* lines 181-182: study.best_params raises ValueError when no trial completed
ReadBestParams ==
    /\ pc = "best_params"
    /\ IF Complete(study) = {}
       THEN /\ error' = "ValueError"
            /\ pc' = "aborted"
            /\ UNCHANGED <<globals, best_params>>
       ELSE /\ best_params' = study.trials[study.best_trial].params
            /\ globals' = globals \cup {"best_params"}
            /\ pc' = "final_model"
            /\ error' = error
    /\ UNCHANGED <<env, study, learning_rate, weight_decay, model, optimizer, loss,
                   final_optimizer>>
    /\ UNCHANGED forwardVars

\* cell 3, lines 194-198
BuildFinalModel ==
    /\ pc = "final_model"
    /\ IF CallTuner.raised # "none"
       THEN /\ error' = CallTuner.raised
            /\ pc' = "aborted"
            /\ globals' = globals
       ELSE /\ globals' = globals \cup {"final_model"}
            /\ pc' = "final_optimizer"
            /\ error' = error
    /\ UNCHANGED <<env, study, learning_rate, weight_decay, model, optimizer, loss,
                   best_params, final_optimizer>>
    /\ UNCHANGED forwardVars

\* cell 3, line 201
BuildFinalOptimizer ==
    /\ pc = "final_optimizer"
    /\ IF "best_params" \notin globals
       THEN /\ error' = "NameError"
            /\ pc' = "aborted"
            /\ final_optimizer' = final_optimizer
       ELSE /\ final_optimizer' = AdamW(Get(best_params, "lr"), Get(best_params, "weight_decay"))
            /\ pc' = "end"
            /\ error' = error
    /\ UNCHANGED <<globals, env, study, learning_rate, weight_decay, model, optimizer,
                   loss, best_params>>
    /\ UNCHANGED forwardVars

Next ==
    \/ RunCell1
    \/ CreateStudy
    \/ Optimize
    \/ SuggestLr
    \/ SuggestWd
    \/ BuildModel
    \/ BuildOptimizer
    \/ ForwardLoss
    \/ BackwardStep
    \/ ReturnLoss
    \/ ReadBestParams
    \/ BuildFinalModel
    \/ BuildFinalOptimizer

Spec == Init /\ [][Next]_vars

(***************************************************************************)
(* Properties of the search (checked under Spec).                          *)
(***************************************************************************)
Trials == 1..Len(study.trials)
Failed == {i \in Trials : study.trials[i].state = "FAIL"}
SearchOver == pc \in {"best_params", "final_model", "final_optimizer", "end", "aborted"}

\* C1: a trial whose training step raises is recorded as failed and the
\* search goes on with the remaining trials: a failed trial never comes with
\* an aborted search.
C1_FailedTrialDoesNotAbort ==
    Failed # {} => pc # "aborted"

\* C2: whenever the search is over, exactly n_trials trials were attempted
\* and recorded, never fewer and never more.
C2_ExactlyNTrials ==
    SearchOver => Len(study.trials) = study.n_trials

\* the completed trial of least value and, among those, of least index,
\* found by looking at the whole record
MinValue == CHOOSE v \in {study.trials[i].value : i \in Complete(study)} :
                \A j \in Complete(study) : v <= study.trials[j].value
EarliestMin == CHOOSE i \in Complete(study) :
                   /\ study.trials[i].value = MinValue
                   /\ \A j \in Complete(study) :
                         study.trials[j].value = MinValue => i <= j

\* C3: once best_params is read, it is the assignment of the completed trial
\* with the minimum objective, the earliest such trial when several share
\* the minimum; the study's best trial is that trial throughout.
C3_BestIsEarliestMinimum ==
    /\ Complete(study) # {} => study.best_trial = EarliestMin
    /\ "best_params" \in globals => best_params = study.trials[EarliestMin].params

\* C3 witness: best_params was read after two completed trials with
\* different assignments tied on the minimum, and it is the earlier one's.
C3_Witness ==
    /\ "best_params" \in globals
    /\ \E i, j \in Complete(study) :
          /\ i < j
          /\ study.trials[i].value = MinValue
          /\ study.trials[j].value = MinValue
          /\ study.trials[i].params # study.trials[j].params
          /\ best_params = study.trials[i].params

\* C4: when the search is over and every trial failed, all n_trials trials
\* were attempted, no assignment was exposed as best and no final optimizer
\* was built.
C4_AllFailedRunsWholeBudget ==
    (SearchOver /\ Complete(study) = {}) =>
        /\ Len(study.trials) = study.n_trials
        /\ "best_params" \notin globals
        /\ ~final_optimizer.built

InBounds(v, low, high) == 0 < v /\ low <= v /\ v <= high

\* C7: every trial that ran to its end or to its failure holds exactly one
\* value for lr and one for weight_decay, each positive and within its
\* bounds, and the trial's optimizer is configured with those two values.
C7_SampledWithinBoundsAndUsed ==
    /\ \A i \in Trials : study.trials[i].state # "RUNNING" =>
          /\ Has(study.trials[i].params, "lr")
          /\ Has(study.trials[i].params, "weight_decay")
          /\ Cardinality(study.trials[i].params) = 2
          /\ InBounds(Get(study.trials[i].params, "lr"), LrLow, LrHigh)
          /\ InBounds(Get(study.trials[i].params, "weight_decay"), WdLow, WdHigh)
    /\ optimizer.built =>
          /\ optimizer.lr = Get(study.trials[Len(study.trials)].params, "lr")
          /\ optimizer.weight_decay = Get(study.trials[Len(study.trials)].params, "weight_decay")
          /\ InBounds(optimizer.lr, LrLow, LrHigh)
          /\ InBounds(optimizer.weight_decay, WdLow, WdHigh)

\* C7 witness: a trial's optimizer holds the largest learning rate and the
\* smallest weight decay the search space allows.
C7_Witness ==
    /\ optimizer.built
    /\ optimizer.lr = LrHigh
    /\ optimizer.weight_decay = WdLow
    /\ study.trials[Len(study.trials)].params = {<<"lr", LrHigh>>, <<"weight_decay", WdLow>>}

(***************************************************************************)
(* Properties of the forward pass (checked under SpecForward).             *)
(***************************************************************************)
Assigned(local) == frame[local] # NoTensor
Called(call) == \E i \in 1..Len(frame.calls) : frame.calls[i] = call

\* C8: the three projected sequences all have width hidden_dim whatever the
\* encoders' widths; they are concatenated in the order text, image, audio;
\* the concatenation and the fused sequence have length Lt+Li+La along
\* axis 1 and width hidden_dim.
C8_FusedLengthIsSum ==
    LET Lt == frame.text_features.shape[2]
        Li == frame.image_features.shape[2]
        La == frame.audio_features.shape[2]
        hidden_dim == self.val.transformer.d_model
    IN
    /\ Assigned("text_proj") => frame.text_proj.shape = <<1, Lt, hidden_dim>>
    /\ Assigned("image_proj") => frame.image_proj.shape = <<1, Li, hidden_dim>>
    /\ Assigned("audio_proj") => frame.audio_proj.shape = <<1, La, hidden_dim>>
    /\ Called("cat") =>
          /\ Assigned("multimodal_features")
          /\ Lt >= 1 /\ Li >= 1 /\ La >= 1
          /\ frame.multimodal_features.shape = <<1, Lt + Li + La, hidden_dim>>
          /\ frame.multimodal_features.rows =
                Tags("text", Lt) \o Tags("image", Li) \o Tags("audio", La)
    /\ Called("transformer") =>
          /\ Assigned("fused_features")
          /\ frame.fused_features.shape = <<1, Lt + Li + La, hidden_dim>>
          /\ Len(frame.fused_features.rows) = Lt + Li + La

\* C8 witness: forward returned after fusing three sequences of pairwise
\* different lengths from encoders of different widths.
C8_Witness ==
    /\ frame.returned
    /\ Assigned("fused_features")
    /\ frame.text_features.shape[2] = 4
    /\ frame.image_features.shape[2] = 50
    /\ frame.audio_features.shape[2] = 2
    /\ frame.text_features.shape[3] # frame.image_features.shape[3]
    /\ frame.text_features.shape[3] # self.val.transformer.d_model

EmptyAudio == args.audio_path.exists /\ args.audio_path.samples = 0
Encoders == {"text_model", "image_model", "audio_model"}

\* C9: with an empty audio input the audio preprocessor raises and forward
\* stops there: no encoder is ever invoked (the three encoders come after
\* the preprocessors), and once forward is over the exception is the
\* preprocessor's.
C9_EmptyAudioStopsAtPreprocessor ==
    EmptyAudio =>
        /\ \A i \in 1..Len(frame.calls) : frame.calls[i] \notin Encoders
        /\ line > LastLine =>
              /\ frame.raised # "none"
              /\ frame.calls[Len(frame.calls)] \in
                    {"preprocess_text", "preprocess_image", "preprocess_audio"}

\* C10: the summary vector the classifier reads (position 0 of the fused
\* sequence) is computed from all Lt+Li+La positions of the concatenation,
\* and the axis the transformer takes as the sequence is axis 1, the axis of
\* the concatenation.
C10_SummaryAttendsOverAll ==
    Assigned("logits") =>
        /\ SeqAxis(self.val.transformer) = 1
        /\ frame.logits.rows[1].from = 1..frame.multimodal_features.shape[2]

====
